---------------------------- MODULE Spec2Model ----------------------------
(*
  Model of the social-media dashboard backend: the three route modules
  (facebookRoutes.js, instagramRoutes.js, twitterRoutes.js) over the
  relational store of database.sql.

  The store is the only shared state.  Every route handler is a sequence of
  awaited statements; each awaited statement is one atomic step of the model,
  so handlers of different requests interleave statement by statement.  The
  synchronous prefix of a handler (argument checks) is executed together with
  its first awaited statement.
*)
EXTENDS Naturals, Integers, Sequences, FiniteSets, TLC

VARIABLES
  social_accounts,     \* table social_accounts: set of rows
  facebook_pages,      \* table facebook_pages
  instagram_accounts,  \* table instagram_accounts
  twitter_accounts,    \* table twitter_accounts
  instagram_media,     \* table instagram_media
  twitter_tweets,      \* table twitter_tweets
  facebook_insights,   \* table facebook_insights
  scheduled_posts,     \* table scheduled_posts
  remote_posts,        \* the posts the providers have created (provider side)
  routers,             \* the route modules that serve this behaviour's requests
  req,                 \* request slot -> the handler invocation running in it
  last,                \* the request that completed most recently (history)
  clock                \* the store's CURRENT_TIMESTAMP / NOW()

vars == <<social_accounts, facebook_pages, instagram_accounts, twitter_accounts,
          instagram_media, twitter_tweets, facebook_insights, scheduled_posts,
          remote_posts, routers, req, last, clock>>

\* the mirrored content and metric tables
content == <<instagram_media, twitter_tweets, facebook_insights>>

-----------------------------------------------------------------------------
(* Bounds *)

NReq == 2         \* request slots: handlers that can be in flight together
MaxClock == 4     \* rows inserted in one behaviour
MaxRemote == 2    \* posts the providers create in one behaviour

-----------------------------------------------------------------------------
(* Values *)

Null == "NULL"            \* SQL NULL / JSON null
Undefined == "undefined"  \* a JS value that is absent from the request or payload

\* A number that may be absent (a nullable numeric column, an optional numeric
\* field of a payload) is <<>> when absent and <<n>> when present.
None == <<>>
Some(n) == <<n>>

Platforms == {"facebook", "instagram", "twitter"}
Owners == {1, 2}
NativeIds == {"42", "99"}
ReqIds == 1 .. NReq

-----------------------------------------------------------------------------
(* Mirrored resource tables.  A row is
     [user_id, native_id, name, access_token, profile_picture_url,
      followers_count, is_selected, created_at]
   native_id is page_id / instagram_id / twitter_id, name is page_name /
   username, access_token is page_access_token / access_token.  The bio column
   of instagram_accounts and twitter_accounts is written exactly like username
   and is left out. *)

Table(p) ==
  CASE p = "facebook" -> facebook_pages
    [] p = "instagram" -> instagram_accounts
    [] p = "twitter" -> twitter_accounts

\* the same table after the step
TableNext(p) ==
  CASE p = "facebook" -> facebook_pages'
    [] p = "instagram" -> instagram_accounts'
    [] p = "twitter" -> twitter_accounts'

SetTable(p, rows) ==
  /\ facebook_pages' = IF p = "facebook" THEN rows ELSE facebook_pages
  /\ instagram_accounts' = IF p = "instagram" THEN rows ELSE instagram_accounts
  /\ twitter_accounts' = IF p = "twitter" THEN rows ELSE twitter_accounts

\* (mutant) the deselect statement is left out
DeselectNone(rows, o) == rows

\* UPDATE <table> SET is_selected = FALSE WHERE user_id = $1
DeselectAll(rows, o) ==
  {IF row.user_id = o THEN [row EXCEPT !.is_selected = FALSE] ELSE row : row \in rows}

\* UPDATE <table> SET is_selected = TRUE WHERE user_id = $1 AND <native id> = $2
SelectOne(rows, o, id) ==
  {IF row.user_id = o /\ row.native_id = id
     THEN [row EXCEPT !.is_selected = TRUE] ELSE row : row \in rows}

\* ... RETURNING *: the rows the statement matched
Matched(rows, o, id) == {row \in rows : row.user_id = o /\ row.native_id = id}

\* SELECT * FROM <table> WHERE user_id = $1 AND is_selected = TRUE
SelectedRows(rows, o) == {row \in rows : row.user_id = o /\ row.is_selected}

-----------------------------------------------------------------------------
(* Requests *)

Idle == [kind |-> "none", plat |-> Null, user |-> 0, arg |-> Null,
         pc |-> "idle", cred |-> Null, page |-> <<>>, target |-> Null, rid |-> 0]

Free(r) == req[r].pc = "idle"

\* What is remembered of a completed request: its arguments, its response, and
\* in "after" the resource that the request completed just before it selected with
\* success for the same owner on the same platform (Null when it did not).
Completed(k, p, o, id, s, b) ==
  [kind |-> k, plat |-> p, user |-> o, arg |-> id, status |-> s, body |-> b,
   after |-> IF last.kind = "select" /\ last.status = 200
                  /\ last.plat = p /\ last.user = o
               THEN last.arg ELSE Null]

NoRequest ==
  [kind |-> "none", plat |-> Null, user |-> 0, arg |-> Null, status |-> 0,
   body |-> Null, after |-> Null]

\* res.status(s).json(b): the handler is over and its slot is free again
Respond(r, s, b) ==
  /\ req' = [req EXCEPT ![r] = Idle]
  /\ last' = Completed(req[r].kind, req[r].plat, req[r].user, req[r].arg, s, b)


-----------------------------------------------------------------------------
(* JS coercions applied to provider payloads before they reach the store *)

\* x || null
OrNull(x) == IF x = Undefined THEN Null ELSE x

\* x || 0, for a number that is present as <<n>> and absent as <<>>
OrZero(x) == IF x = None THEN 0 ELSE x[1]

-----------------------------------------------------------------------------
(* Select a resource: POST /pages/select, POST /accounts/select *)

\* if (!id) return 400; else the first statement, deselect all
SelectStart(r, p, o, id) ==
  /\ Free(r)
  /\ IF id = Undefined
       THEN /\ last' = Completed("select", p, o, id, 400, Null)
            /\ UNCHANGED <<req, facebook_pages, instagram_accounts, twitter_accounts>>
       ELSE /\ SetTable(p, DeselectAll(Table(p), o))
            /\ req' = [req EXCEPT ![r] = [Idle EXCEPT !.kind = "select", !.plat = p,
                         !.user = o, !.arg = id, !.pc = "select_one"]]
            /\ UNCHANGED last
  /\ UNCHANGED <<social_accounts, content, scheduled_posts, remote_posts, routers,
                 clock>>

\* the second statement, select one, and the response: 404 when it matched no row
SelectFinish(r) ==
  /\ req[r].kind = "select" /\ req[r].pc = "select_one"
  /\ LET p == req[r].plat
         o == req[r].user
         id == req[r].arg
     IN /\ SetTable(p, SelectOne(Table(p), o, id))
        /\ IF Matched(Table(p), o, id) = {}
             THEN Respond(r, 404, Null)
             ELSE Respond(r, 200, id)
  /\ UNCHANGED <<social_accounts, content, scheduled_posts, remote_posts, routers,
                 clock>>

-----------------------------------------------------------------------------
(* Get the selected resource: GET /pages/selected, GET /accounts/selected *)

\* SELECT ... AND is_selected = TRUE LIMIT 1: any one of the selected rows
GetSelected(r, p, o) ==
  /\ Free(r)
  /\ \E b \in IF SelectedRows(Table(p), o) = {} THEN {Null}
              ELSE {row.native_id : row \in SelectedRows(Table(p), o)} :
       last' = Completed("getSelected", p, o, Null, 200, b)
  /\ UNCHANGED <<req, social_accounts, facebook_pages, instagram_accounts,
                 twitter_accounts, content, scheduled_posts, remote_posts, routers, clock>>

-----------------------------------------------------------------------------
(* Provider payloads.  A resource record of the provider is
     [id, name, access_token, picture, followers_count]
   (Graph API /me/accounts entry, graph.instagram.com/me, Twitter users/me);
   a field the provider left out is Undefined. *)

AccountToken(o, p) == <<"token", o, p>>
PageToken(o, id) == <<"page_token", o, id>>

ProviderRecord(id, name, tok, pic, fol) ==
  [id |-> id, name |-> name, access_token |-> tok, picture |-> pic,
   followers_count |-> fol]

-----------------------------------------------------------------------------
(* Mirror upsert of resources *)

HasKey(rows, o, id) == \E row \in rows : row.user_id = o /\ row.native_id = id

\* (mutant) the owner's mirror is replaced by the record
UpsertFacebookPageReplaces(rows, o, rec, cred, now) ==
  {row \in rows : row.user_id # o}
    \cup {[user_id |-> o, native_id |-> rec.id, name |-> rec.name,
           access_token |-> rec.access_token,
           profile_picture_url |-> OrNull(rec.picture),
           followers_count |-> OrZero(rec.followers_count),
           is_selected |-> FALSE, created_at |-> now]}

\* (mutant) the conflict clause also stamps the row anew
UpsertFacebookPageTouches(rows, o, rec, cred, now) ==
  IF HasKey(rows, o, rec.id)
    THEN {IF row.user_id = o /\ row.native_id = rec.id
            THEN [row EXCEPT !.name = rec.name,
                             !.access_token = rec.access_token,
                             !.followers_count = OrZero(rec.followers_count),
                             !.created_at = now]
            ELSE row : row \in rows}
    ELSE rows \cup {[user_id |-> o, native_id |-> rec.id, name |-> rec.name,
                     access_token |-> rec.access_token,
                     profile_picture_url |-> OrNull(rec.picture),
                     followers_count |-> OrZero(rec.followers_count),
                     is_selected |-> FALSE, created_at |-> now]}

\* INSERT INTO facebook_pages (...) VALUES ($1..$6)
\* ON CONFLICT (user_id, page_id)
\* DO UPDATE SET page_name = $3, page_access_token = $4, followers_count = $6
UpsertFacebookPage(rows, o, rec, cred, now) ==
  IF HasKey(rows, o, rec.id)
    THEN {IF row.user_id = o /\ row.native_id = rec.id
            THEN [row EXCEPT !.name = rec.name,
                             !.access_token = rec.access_token,
                             !.followers_count = OrZero(rec.followers_count)]
            ELSE row : row \in rows}
    ELSE rows \cup {[user_id |-> o, native_id |-> rec.id, name |-> rec.name,
                     access_token |-> rec.access_token,
                     profile_picture_url |-> OrNull(rec.picture),
                     followers_count |-> OrZero(rec.followers_count),
                     is_selected |-> FALSE, created_at |-> now]}

\* (mutant) the conflict clause resets the selection flag to its default
UpsertAccountDeselects(rows, o, rec, cred, now) ==
  {row \in rows : ~(row.user_id = o /\ row.native_id = rec.id)}
    \cup {[user_id |-> o, native_id |-> rec.id, name |-> rec.name,
           access_token |-> cred,
           profile_picture_url |-> OrNull(rec.picture),
           followers_count |-> OrZero(rec.followers_count),
           is_selected |-> FALSE, created_at |-> now]}

\* (mutant) the conflict clause keeps the stored row
UpsertAccountKeeps(rows, o, rec, cred, now) ==
  IF HasKey(rows, o, rec.id)
    THEN rows
    ELSE rows \cup {[user_id |-> o, native_id |-> rec.id, name |-> rec.name,
                     access_token |-> cred,
                     profile_picture_url |-> OrNull(rec.picture),
                     followers_count |-> OrZero(rec.followers_count),
                     is_selected |-> FALSE, created_at |-> now]}

\* INSERT INTO instagram_accounts / twitter_accounts (...) VALUES ($1..$7)
\* ON CONFLICT (user_id, <native id>)
\* DO UPDATE SET username = $3, profile_picture_url, bio, followers_count = $6,
\*               access_token = $7
UpsertAccount(rows, o, rec, cred, now) ==
  IF HasKey(rows, o, rec.id)
    THEN {IF row.user_id = o /\ row.native_id = rec.id
            THEN [row EXCEPT !.name = rec.name,
                             !.profile_picture_url = OrNull(rec.picture),
                             !.followers_count = OrZero(rec.followers_count),
                             !.access_token = cred]
            ELSE row : row \in rows}
    ELSE rows \cup {[user_id |-> o, native_id |-> rec.id, name |-> rec.name,
                     access_token |-> cred,
                     profile_picture_url |-> OrNull(rec.picture),
                     followers_count |-> OrZero(rec.followers_count),
                     is_selected |-> FALSE, created_at |-> now]}

UpsertResource(p, rows, o, rec, cred, now) ==
  IF p = "facebook" THEN UpsertFacebookPage(rows, o, rec, cred, now)
                    ELSE UpsertAccount(rows, o, rec, cred, now)

-----------------------------------------------------------------------------
(* Fetch resources: GET /pages (facebook), GET /accounts (instagram, twitter) *)

\* (mutant) the lookup forgets the platform
LinkedAnyPlatform(o, p) == {a \in social_accounts : a.user_id = o}

\* SELECT access_token FROM social_accounts WHERE user_id = $1 AND platform = $2
LinkedAccounts(o, p) == {a \in social_accounts : a.user_id = o /\ a.platform = p}

\* the account lookup; 400 when the owner has no linked account
FetchStart(r, p, o) ==
  /\ Free(r)
  /\ IF LinkedAccounts(o, p) = {}
       THEN /\ last' = Completed("fetch", p, o, Null, 400, Null)
            /\ UNCHANGED req
       ELSE /\ \E a \in LinkedAccounts(o, p) :
                 req' = [req EXCEPT ![r] = [Idle EXCEPT !.kind = "fetch", !.plat = p,
                           !.user = o, !.pc = "provider", !.cred = a.access_token]]
            /\ UNCHANGED last
  /\ UNCHANGED <<social_accounts, facebook_pages, instagram_accounts,
                 twitter_accounts, content, scheduled_posts, remote_posts, routers, clock>>

\* axios.get: the provider answers with a list of records
FetchProviderOk(r, answers) ==
  /\ req[r].kind = "fetch" /\ req[r].pc = "provider"
  /\ \E list \in answers :
       req' = [req EXCEPT ![r] = [@ EXCEPT !.page = list,
                 !.pc = IF list = <<>> THEN "return" ELSE "upsert"]]
  /\ UNCHANGED <<social_accounts, facebook_pages, instagram_accounts,
                 twitter_accounts, content, scheduled_posts, remote_posts, routers,
                 last, clock>>

\* axios.get throws: catch, 500
FetchProviderFail(r) ==
  /\ req[r].kind = "fetch" /\ req[r].pc = "provider"
  /\ Respond(r, 500, Null)
  /\ UNCHANGED <<social_accounts, facebook_pages, instagram_accounts,
                 twitter_accounts, content, scheduled_posts, remote_posts, routers, clock>>

\* one pass of the loop body: the upsert of the next record
FetchUpsert(r) ==
  /\ req[r].kind = "fetch" /\ req[r].pc = "upsert"
  /\ LET p == req[r].plat
         o == req[r].user
         rec == Head(req[r].page)
         inserts == ~HasKey(Table(p), o, rec.id)
     IN /\ inserts => clock < MaxClock
        /\ SetTable(p, UpsertResource(p, Table(p), o, rec, req[r].cred, clock))
        /\ clock' = IF inserts THEN clock + 1 ELSE clock
        /\ req' = [req EXCEPT ![r] = [@ EXCEPT !.page = Tail(@),
                     !.pc = IF Tail(req[r].page) = <<>> THEN "return" ELSE "upsert"]]
  /\ UNCHANGED <<social_accounts, content, scheduled_posts, remote_posts, routers,
                 last>>

\* SELECT the owner's rows back and answer 200
FetchReturn(r) ==
  /\ req[r].kind = "fetch" /\ req[r].pc = "return"
  /\ Respond(r, 200, Null)
  /\ UNCHANGED <<social_accounts, facebook_pages, instagram_accounts,
                 twitter_accounts, content, scheduled_posts, remote_posts, routers, clock>>

-----------------------------------------------------------------------------
(* The server process dies: every handler in flight is lost, the store stays *)

Crash ==
  /\ \E r \in ReqIds : ~Free(r)
  /\ req' = [r \in ReqIds |-> IF Free(r) THEN req[r] ELSE Idle]
  /\ UNCHANGED <<social_accounts, facebook_pages, instagram_accounts,
                 twitter_accounts, content, scheduled_posts, remote_posts, routers,
                 last, clock>>

-----------------------------------------------------------------------------
(* Publishing.  A scheduled_posts row is
     [id, user_id, page_id, status, facebook_post_id, published_at];
   content, scheduled_time and media_url only travel to the provider.
   A post id of 0 stands for a request body without postId. *)

TweetMaxLen == 280

\* SELECT * FROM scheduled_posts WHERE id = $1 AND user_id = $2
OwnScheduledPosts(id, o) ==
  {sp \in scheduled_posts : sp.id = id /\ sp.user_id = o}

\* UPDATE scheduled_posts SET status = 'published', facebook_post_id = $2,
\*   published_at = NOW() WHERE id = $3
MarkPublished(rows, id, rid, now) ==
  {IF sp.id = id
     THEN [sp EXCEPT !.status = "published", !.facebook_post_id = Some(rid),
                     !.published_at = Some(now)]
     ELSE sp : sp \in rows}

\* the provider creates a post and answers with its id; remote_posts keeps,
\* with the id, the postId of the request the post was created for
NewRemoteId == Cardinality(remote_posts) + 1

CreatePost(r) ==
  /\ Cardinality(remote_posts) < MaxRemote
  /\ remote_posts' = remote_posts \cup {[id |-> NewRemoteId, item |-> req[r].arg]}

\* POST /publish (facebook): load the caller's scheduled post, 404 without it
FacebookPublishStart(r, o, postId) ==
  /\ Free(r)
  /\ IF OwnScheduledPosts(postId, o) = {}
       THEN /\ last' = Completed("publish", "facebook", o, postId, 404, Null)
            /\ UNCHANGED req
       ELSE /\ \E post \in OwnScheduledPosts(postId, o) :
                 req' = [req EXCEPT ![r] = [Idle EXCEPT !.kind = "publish",
                           !.plat = "facebook", !.user = o, !.arg = postId,
                           !.pc = "page_lookup", !.target = post.page_id]]
            /\ UNCHANGED last
  /\ UNCHANGED <<social_accounts, facebook_pages, instagram_accounts,
                 twitter_accounts, content, scheduled_posts, remote_posts, routers, clock>>

\* SELECT * FROM facebook_pages WHERE page_id = $1; rows[0]; 400 without a row
FacebookPageLookup(r) ==
  /\ req[r].kind = "publish" /\ req[r].pc = "page_lookup"
  /\ LET found == {row \in facebook_pages : row.native_id = req[r].target}
     IN IF found = {}
          THEN Respond(r, 400, Null)
          ELSE /\ \E row \in found :
                    req' = [req EXCEPT ![r] = [@ EXCEPT !.pc = "provider",
                              !.cred = row.access_token]]
               /\ UNCHANGED last
  /\ UNCHANGED <<social_accounts, facebook_pages, instagram_accounts,
                 twitter_accounts, content, scheduled_posts, remote_posts, routers, clock>>

\* POST /publish (instagram): 400 without imageUrl or without a selected account
InstagramPublishStart(r, o, postId, imageUrl) ==
  /\ Free(r)
  /\ IF imageUrl = Undefined \/ SelectedRows(instagram_accounts, o) = {}
       THEN /\ last' = Completed("publish", "instagram", o, postId, 400, Null)
            /\ UNCHANGED req
       ELSE /\ \E account \in SelectedRows(instagram_accounts, o) :
                 req' = [req EXCEPT ![r] = [Idle EXCEPT !.kind = "publish",
                           !.plat = "instagram", !.user = o, !.arg = postId,
                           !.pc = "container", !.target = account.native_id,
                           !.cred = account.access_token]]
            /\ UNCHANGED last
  /\ UNCHANGED <<social_accounts, facebook_pages, instagram_accounts,
                 twitter_accounts, content, scheduled_posts, remote_posts, routers, clock>>

\* axios.post .../media: the container is created
InstagramContainerOk(r) ==
  /\ req[r].kind = "publish" /\ req[r].pc = "container"
  /\ req' = [req EXCEPT ![r] = [@ EXCEPT !.pc = "media_publish"]]
  /\ UNCHANGED <<social_accounts, facebook_pages, instagram_accounts,
                 twitter_accounts, content, scheduled_posts, remote_posts, routers,
                 last, clock>>

\* POST /tweet: 400 without text, with more than 280 characters, or without a
\* selected account; the text is given by its length
TweetStart(r, o, postId, textLen) ==
  /\ Free(r)
  /\ IF textLen = 0 \/ textLen > TweetMaxLen
          \/ SelectedRows(twitter_accounts, o) = {}
       THEN /\ last' = Completed("publish", "twitter", o, postId, 400, Null)
            /\ UNCHANGED req
       ELSE /\ \E account \in SelectedRows(twitter_accounts, o) :
                 req' = [req EXCEPT ![r] = [Idle EXCEPT !.kind = "publish",
                           !.plat = "twitter", !.user = o, !.arg = postId,
                           !.pc = "provider", !.target = account.native_id,
                           !.cred = account.access_token]]
            /\ UNCHANGED last
  /\ UNCHANGED <<social_accounts, facebook_pages, instagram_accounts,
                 twitter_accounts, content, scheduled_posts, remote_posts, routers, clock>>

\* the call that creates the post: axios.post .../feed, .../media_publish,
\* /2/tweets
AtCreateCall(r) ==
  /\ req[r].kind = "publish"
  /\ req[r].pc = IF req[r].plat = "instagram" THEN "media_publish" ELSE "provider"

\* the provider answers with the new post's id; instagram and twitter skip the
\* status update when the request carried no postId
PublishProviderOk(r) ==
  /\ AtCreateCall(r)
  /\ CreatePost(r)
  /\ IF req[r].plat # "facebook" /\ req[r].arg = 0
       THEN Respond(r, 200, Null)
       ELSE /\ req' = [req EXCEPT ![r] = [@ EXCEPT !.pc = "update",
                         !.rid = NewRemoteId]]
            /\ UNCHANGED last
  /\ UNCHANGED <<social_accounts, facebook_pages, instagram_accounts,
                 twitter_accounts, content, scheduled_posts, routers, clock>>

\* the publish handler's provider calls
ProviderCalls == {"provider", "container", "media_publish"}

\* (mutant) the catch block writes the status before it answers
PublishProviderFailMarks(r) ==
  /\ req[r].kind = "publish" /\ req[r].pc \in ProviderCalls
  /\ scheduled_posts' =
       {IF sp.id = req[r].arg THEN [sp EXCEPT !.status = "failed"] ELSE sp :
          sp \in scheduled_posts}
  /\ Respond(r, 500, Null)
  /\ UNCHANGED <<social_accounts, facebook_pages, instagram_accounts,
                 twitter_accounts, content, remote_posts, routers, clock>>

\* a provider call of the publish handler throws: catch, 500
PublishProviderFail(r) ==
  /\ req[r].kind = "publish" /\ req[r].pc \in ProviderCalls
  /\ Respond(r, 500, Null)
  /\ UNCHANGED <<social_accounts, facebook_pages, instagram_accounts,
                 twitter_accounts, content, scheduled_posts, remote_posts, routers, clock>>

\* the status update, WHERE id = $3, and the 200 response (its body carries the
\* id that the update wrote)
PublishUpdate(r) ==
  /\ req[r].kind = "publish" /\ req[r].pc = "update"
  /\ scheduled_posts' = MarkPublished(scheduled_posts, req[r].arg, req[r].rid, clock)
  /\ clock' = clock + 1
  /\ Respond(r, 200, Null)
  /\ UNCHANGED <<social_accounts, facebook_pages, instagram_accounts,
                 twitter_accounts, content, remote_posts, routers>>

\* (mutant) the failed update has written the row all the same
PublishUpdateFailMarks(r) ==
  /\ req[r].kind = "publish" /\ req[r].pc = "update"
  /\ scheduled_posts' = MarkPublished(scheduled_posts, req[r].arg, req[r].rid, clock)
  /\ Respond(r, 500, Null)
  /\ UNCHANGED <<social_accounts, facebook_pages, instagram_accounts,
                 twitter_accounts, content, remote_posts, routers, clock>>

\* the status update throws (the store is unreachable, the statement is
\* rejected): catch, 500
PublishUpdateFail(r) ==
  /\ req[r].kind = "publish" /\ req[r].pc = "update"
  /\ Respond(r, 500, Null)
  /\ UNCHANGED <<social_accounts, facebook_pages, instagram_accounts,
                 twitter_accounts, content, scheduled_posts, remote_posts, routers,
                 clock>>

-----------------------------------------------------------------------------
(* Mirrored content.  An instagram_media row is
     [user_id, instagram_id, media_id, caption, media_type, media_url,
      likes_count, comments_count, created_time, fetched_at]
   and a twitter_tweets row is
     [user_id, twitter_id, tweet_id, text, likes_count, retweets_count,
      replies_count, created_time, fetched_at].
   A media record of the provider is
     [id, caption, media_type, media_url, timestamp, like_count, comments_count]
   and a tweet record is
     [id, text, created_at, like_count, retweet_count, reply_count]
   (the counts of public_metrics). *)

\* x || new Date().toISOString(), for a time that is present as <<t>>
OrNow(x, now) == IF x = None THEN now ELSE x[1]

HasMedia(rows, parent, id) ==
  \E row \in rows : row.instagram_id = parent /\ row.media_id = id

\* (mutant) the conflict clause also takes the row over for the caller
UpsertMediaTakesOver(rows, o, parent, rec, now) ==
  IF HasMedia(rows, parent, rec.id)
    THEN {IF row.instagram_id = parent /\ row.media_id = rec.id
            THEN [row EXCEPT !.user_id = o,
                             !.caption = OrNull(rec.caption),
                             !.likes_count = OrZero(rec.like_count),
                             !.comments_count = OrZero(rec.comments_count)]
            ELSE row : row \in rows}
    ELSE rows \cup {[user_id |-> o, instagram_id |-> parent, media_id |-> rec.id,
                     caption |-> OrNull(rec.caption),
                     media_type |-> rec.media_type,
                     media_url |-> OrNull(rec.media_url),
                     likes_count |-> OrZero(rec.like_count),
                     comments_count |-> OrZero(rec.comments_count),
                     created_time |-> OrNow(rec.timestamp, now),
                     fetched_at |-> now]}

\* INSERT INTO instagram_media (...) VALUES ($1..$9)
\* ON CONFLICT (instagram_id, media_id)
\* DO UPDATE SET caption = $4, likes_count = $7, comments_count = $8
UpsertMedia(rows, o, parent, rec, now) ==
  IF HasMedia(rows, parent, rec.id)
    THEN {IF row.instagram_id = parent /\ row.media_id = rec.id
            THEN [row EXCEPT !.caption = OrNull(rec.caption),
                             !.likes_count = OrZero(rec.like_count),
                             !.comments_count = OrZero(rec.comments_count)]
            ELSE row : row \in rows}
    ELSE rows \cup {[user_id |-> o, instagram_id |-> parent, media_id |-> rec.id,
                     caption |-> OrNull(rec.caption),
                     media_type |-> rec.media_type,
                     media_url |-> OrNull(rec.media_url),
                     likes_count |-> OrZero(rec.like_count),
                     comments_count |-> OrZero(rec.comments_count),
                     created_time |-> OrNow(rec.timestamp, now),
                     fetched_at |-> now]}

HasTweet(rows, parent, id) ==
  \E row \in rows : row.twitter_id = parent /\ row.tweet_id = id

\* (mutant) a plain INSERT, without the conflict clause and the constraint
UpsertTweetAppends(rows, o, parent, rec, now) ==
  rows \cup {[user_id |-> o, twitter_id |-> parent, tweet_id |-> rec.id,
              text |-> rec.text,
              likes_count |-> OrZero(rec.like_count),
              retweets_count |-> OrZero(rec.retweet_count),
              replies_count |-> OrZero(rec.reply_count),
              created_time |-> OrNow(rec.created_at, now),
              fetched_at |-> now]}

\* INSERT INTO twitter_tweets (...) VALUES ($1..$8)
\* ON CONFLICT (twitter_id, tweet_id)
\* DO UPDATE SET text = $4, likes_count = $5, retweets_count = $6,
\*               replies_count = $7
UpsertTweet(rows, o, parent, rec, now) ==
  IF HasTweet(rows, parent, rec.id)
    THEN {IF row.twitter_id = parent /\ row.tweet_id = rec.id
            THEN [row EXCEPT !.text = rec.text,
                             !.likes_count = OrZero(rec.like_count),
                             !.retweets_count = OrZero(rec.retweet_count),
                             !.replies_count = OrZero(rec.reply_count)]
            ELSE row : row \in rows}
    ELSE rows \cup {[user_id |-> o, twitter_id |-> parent, tweet_id |-> rec.id,
                     text |-> rec.text,
                     likes_count |-> OrZero(rec.like_count),
                     retweets_count |-> OrZero(rec.retweet_count),
                     replies_count |-> OrZero(rec.reply_count),
                     created_time |-> OrNow(rec.created_at, now),
                     fetched_at |-> now]}

ContentTable(p) == IF p = "instagram" THEN instagram_media ELSE twitter_tweets

ContentTableNext(p) == IF p = "instagram" THEN instagram_media' ELSE twitter_tweets'

SetContentTable(p, rows) ==
  /\ instagram_media' = IF p = "instagram" THEN rows ELSE instagram_media
  /\ twitter_tweets' = IF p = "twitter" THEN rows ELSE twitter_tweets
  /\ UNCHANGED facebook_insights

HasContent(p, rows, parent, id) ==
  IF p = "instagram" THEN HasMedia(rows, parent, id) ELSE HasTweet(rows, parent, id)

UpsertContent(p, rows, o, parent, rec, now) ==
  IF p = "instagram" THEN UpsertMedia(rows, o, parent, rec, now)
                     ELSE UpsertTweet(rows, o, parent, rec, now)

-----------------------------------------------------------------------------
(* Fetch content of the selected account: GET /media, GET /tweets *)

\* the lookup of the selected account; 400 when none is selected
ContentStart(r, p, o) ==
  /\ Free(r)
  /\ IF SelectedRows(Table(p), o) = {}
       THEN /\ last' = Completed("content", p, o, Null, 400, Null)
            /\ UNCHANGED req
       ELSE /\ \E account \in SelectedRows(Table(p), o) :
                 req' = [req EXCEPT ![r] = [Idle EXCEPT !.kind = "content", !.plat = p,
                           !.user = o, !.pc = "provider",
                           !.target = account.native_id,
                           !.cred = account.access_token]]
            /\ UNCHANGED last
  /\ UNCHANGED <<social_accounts, facebook_pages, instagram_accounts,
                 twitter_accounts, content, scheduled_posts, remote_posts, routers,
                 clock>>

\* axios.get: the provider answers with a page of records; an empty page is
\* answered 200 at once
ContentProviderOk(r, answers) ==
  /\ req[r].kind = "content" /\ req[r].pc = "provider"
  /\ \E list \in answers :
       IF list = <<>>
         THEN Respond(r, 200, Null)
         ELSE /\ req' = [req EXCEPT ![r] = [@ EXCEPT !.page = list, !.pc = "upsert"]]
              /\ UNCHANGED last
  /\ UNCHANGED <<social_accounts, facebook_pages, instagram_accounts,
                 twitter_accounts, content, scheduled_posts, remote_posts, routers,
                 clock>>

\* axios.get throws: catch, 500
ContentProviderFail(r) ==
  /\ req[r].kind = "content" /\ req[r].pc = "provider"
  /\ Respond(r, 500, Null)
  /\ UNCHANGED <<social_accounts, facebook_pages, instagram_accounts,
                 twitter_accounts, content, scheduled_posts, remote_posts, routers,
                 clock>>

\* one pass of the loop body; after the last one the handler answers 200
ContentUpsert(r) ==
  /\ req[r].kind = "content" /\ req[r].pc = "upsert"
  /\ LET p == req[r].plat
         rec == Head(req[r].page)
         inserts == ~HasContent(p, ContentTable(p), req[r].target, rec.id)
     IN /\ inserts => clock < MaxClock
        /\ SetContentTable(p, UpsertContent(p, ContentTable(p), req[r].user,
                                            req[r].target, rec, clock))
        /\ clock' = IF inserts THEN clock + 1 ELSE clock
        /\ IF Tail(req[r].page) = <<>>
             THEN Respond(r, 200, Null)
             ELSE /\ req' = [req EXCEPT ![r] = [@ EXCEPT !.page = Tail(@)]]
                  /\ UNCHANGED last
  /\ UNCHANGED <<social_accounts, facebook_pages, instagram_accounts,
                 twitter_accounts, scheduled_posts, remote_posts, routers>>

-----------------------------------------------------------------------------
(* Insights and live reads of the selected resource: GET /insights (facebook,
   instagram), GET /analytics (twitter), GET /posts (facebook).  Only the
   facebook insights are stored; a facebook_insights row is
     [user_id, page_id, metric_name, metric_value, insight_date, created_at].
   The provider's answer is read in the order of the two nested loops, as a
   list of samples [name, value, end_time], end_time in seconds. *)

SecondsPerDay == 86400

\* new Date(value.end_time * 1000).toISOString().split('T')[0]: the UTC day
InsightDate(end_time) == end_time \div SecondsPerDay

HasInsight(rows, page, name, date) ==
  \E row \in rows :
    row.page_id = page /\ row.metric_name = name /\ row.insight_date = date

\* (mutant) the conflict clause overwrites the stored sample
InsertInsightOverwrites(rows, o, page, sample, now) ==
  {row \in rows : ~(row.page_id = page /\ row.metric_name = sample.name
                      /\ row.insight_date = InsightDate(sample.end_time))}
    \cup {[user_id |-> o, page_id |-> page, metric_name |-> sample.name,
           metric_value |-> sample.value,
           insight_date |-> InsightDate(sample.end_time), created_at |-> now]}

\* INSERT INTO facebook_insights (...) VALUES ($1..$5)
\* ON CONFLICT (page_id, metric_name, insight_date) DO NOTHING
InsertInsight(rows, o, page, sample, now) ==
  IF HasInsight(rows, page, sample.name, InsightDate(sample.end_time))
    THEN rows
    ELSE rows \cup {[user_id |-> o, page_id |-> page, metric_name |-> sample.name,
                     metric_value |-> sample.value,
                     insight_date |-> InsightDate(sample.end_time),
                     created_at |-> now]}

ReadKinds == {"insights", "posts"}

\* the lookup of the selected resource; 400 when none is selected
ReadStart(r, k, p, o) ==
  /\ Free(r)
  /\ k = "posts" => p = "facebook"
  /\ IF SelectedRows(Table(p), o) = {}
       THEN /\ last' = Completed(k, p, o, Null, 400, Null)
            /\ UNCHANGED req
       ELSE /\ \E selected \in SelectedRows(Table(p), o) :
                 req' = [req EXCEPT ![r] = [Idle EXCEPT !.kind = k, !.plat = p,
                           !.user = o, !.pc = "provider",
                           !.target = selected.native_id,
                           !.cred = selected.access_token]]
            /\ UNCHANGED last
  /\ UNCHANGED <<social_accounts, facebook_pages, instagram_accounts,
                 twitter_accounts, content, scheduled_posts, remote_posts, routers,
                 clock>>

\* axios.get resolves; only the facebook insights go on to the store
ReadProviderOk(r, samples) ==
  /\ req[r].kind \in ReadKinds /\ req[r].pc = "provider"
  /\ IF req[r].kind = "insights" /\ req[r].plat = "facebook"
       THEN \E list \in samples :
              IF list = <<>>
                THEN Respond(r, 200, Null)
                ELSE /\ req' = [req EXCEPT ![r] = [@ EXCEPT !.page = list,
                                                            !.pc = "insert"]]
                     /\ UNCHANGED last
       ELSE Respond(r, 200, Null)
  /\ UNCHANGED <<social_accounts, facebook_pages, instagram_accounts,
                 twitter_accounts, content, scheduled_posts, remote_posts, routers,
                 clock>>

\* (mutant) the catch of the instagram insights answers like the others
ReadFailureStatus500(k, p) == 500

\* the catch blocks: 500, but res.json([]) for the instagram insights
ReadFailureStatus(k, p) == IF k = "insights" /\ p = "instagram" THEN 200 ELSE 500

\* axios.get throws
ReadProviderFail(r) ==
  /\ req[r].kind \in ReadKinds /\ req[r].pc = "provider"
  /\ Respond(r, ReadFailureStatus(req[r].kind, req[r].plat),
             IF ReadFailureStatus(req[r].kind, req[r].plat) = 200 THEN "[]" ELSE Null)
  /\ UNCHANGED <<social_accounts, facebook_pages, instagram_accounts,
                 twitter_accounts, content, scheduled_posts, remote_posts, routers,
                 clock>>

\* one pass of the inner loop body; after the last one the handler answers 200
InsightsInsert(r) ==
  /\ req[r].kind = "insights" /\ req[r].pc = "insert"
  /\ LET sample == Head(req[r].page)
         inserts == ~HasInsight(facebook_insights, req[r].target, sample.name,
                                InsightDate(sample.end_time))
     IN /\ inserts => clock < MaxClock
        /\ facebook_insights' = InsertInsight(facebook_insights, req[r].user,
                                              req[r].target, sample, clock)
        /\ clock' = IF inserts THEN clock + 1 ELSE clock
        /\ IF Tail(req[r].page) = <<>>
             THEN Respond(r, 200, Null)
             ELSE /\ req' = [req EXCEPT ![r] = [@ EXCEPT !.page = Tail(@)]]
                  /\ UNCHANGED last
  /\ UNCHANGED <<social_accounts, facebook_pages, instagram_accounts,
                 twitter_accounts, instagram_media, twitter_tweets,
                 scheduled_posts, remote_posts, routers>>

-----------------------------------------------------------------------------
(* Disconnect: POST /disconnect.  Three awaited DELETEs (two for facebook,
   which has no content table), each a step of its own. *)

\* DELETE FROM facebook_pages | instagram_accounts | twitter_accounts
\* WHERE user_id = $1
DisconnectStart(r, p, o) ==
  /\ Free(r)
  /\ SetTable(p, {row \in Table(p) : row.user_id # o})
  /\ req' = [req EXCEPT ![r] = [Idle EXCEPT !.kind = "disconnect", !.plat = p,
               !.user = o,
               !.pc = IF p = "facebook" THEN "delete_account" ELSE "delete_content"]]
  /\ UNCHANGED <<social_accounts, content, scheduled_posts, remote_posts, routers,
                 last, clock>>

\* DELETE FROM instagram_media | twitter_tweets WHERE user_id = $1
DisconnectContent(r) ==
  /\ req[r].kind = "disconnect" /\ req[r].pc = "delete_content"
  /\ SetContentTable(req[r].plat,
       {row \in ContentTable(req[r].plat) : row.user_id # req[r].user})
  /\ req' = [req EXCEPT ![r] = [@ EXCEPT !.pc = "delete_account"]]
  /\ UNCHANGED <<social_accounts, facebook_pages, instagram_accounts,
                 twitter_accounts, scheduled_posts, remote_posts, routers, last,
                 clock>>

\* DELETE FROM social_accounts WHERE user_id = $1 AND platform = $2, and the
\* 200 response
DisconnectAccount(r) ==
  /\ req[r].kind = "disconnect" /\ req[r].pc = "delete_account"
  /\ social_accounts' =
       {a \in social_accounts : ~(a.user_id = req[r].user /\ a.platform = req[r].plat)}
  /\ Respond(r, 200, Null)
  /\ UNCHANGED <<facebook_pages, instagram_accounts, twitter_accounts, content,
                 scheduled_posts, remote_posts, routers, clock>>

-----------------------------------------------------------------------------
(* The selection scenario: owners link their accounts, fetch, select.
   Owner 1 manages pages 42 and 99 and owner 2 manages page 42; an instagram or
   twitter token answers for account 42, or for account 99 once owner 1 has
   linked another account. *)

SelRecord(o, id) == ProviderRecord(id, "A", PageToken(o, id), "u", Some(10))

SelAnswers(p, o) ==
  IF p = "facebook"
    THEN IF o = 1 THEN {<<SelRecord(o, "42"), SelRecord(o, "99")>>}
                  ELSE {<<SelRecord(o, "42")>>}
    ELSE IF o = 1 THEN {<<SelRecord(o, "42")>>, <<SelRecord(o, "99")>>}
                  ELSE {<<SelRecord(o, "42")>>}

\* every owner has linked every platform (the handshake of authRoutes)
AllLinked ==
  {[user_id |-> o, platform |-> p, access_token |-> AccountToken(o, p)] :
     o \in Owners, p \in Platforms}

\* The three route modules keep their resources in tables of their own; the
\* selection scenario exercises one of them per behaviour.
Init ==
  /\ routers \in {{p} : p \in Platforms}
  /\ social_accounts = AllLinked
  /\ facebook_pages = {}
  /\ instagram_accounts = {}
  /\ twitter_accounts = {}
  /\ instagram_media = {}
  /\ twitter_tweets = {}
  /\ facebook_insights = {}
  /\ scheduled_posts = {}
  /\ remote_posts = {}
  /\ req = [r \in ReqIds |-> Idle]
  /\ last = NoRequest
  /\ clock = 0

SelectArgs == NativeIds \cup {Undefined}

Next ==
  \/ \E r \in ReqIds, p \in routers, o \in Owners, id \in SelectArgs :
       SelectStart(r, p, o, id)
  \/ \E r \in ReqIds : SelectFinish(r)
  \/ \E r \in ReqIds, p \in routers, o \in Owners : GetSelected(r, p, o)
  \/ \E r \in ReqIds, p \in routers, o \in Owners : FetchStart(r, p, o)
  \/ \E r \in ReqIds : FetchProviderOk(r, SelAnswers(req[r].plat, req[r].user))
  \/ \E r \in ReqIds : FetchProviderFail(r)
  \/ \E r \in ReqIds : FetchUpsert(r)
  \/ \E r \in ReqIds : FetchReturn(r)
  \/ Crash

Spec == Init /\ [][Next]_vars

\* sequential calls: a request starts only when no other is in flight, and
\* is served in the first slot
Quiet == \A r \in ReqIds : Free(r)

SeqIds == {CHOOSE r \in ReqIds : \A q \in ReqIds : r <= q}

SeqNext ==
  \/ \E r \in SeqIds, p \in routers, o \in Owners, id \in SelectArgs :
       Quiet /\ SelectStart(r, p, o, id)
  \/ \E r \in SeqIds : SelectFinish(r)
  \/ \E r \in SeqIds, p \in routers, o \in Owners : Quiet /\ GetSelected(r, p, o)
  \/ \E r \in SeqIds, p \in routers, o \in Owners : Quiet /\ FetchStart(r, p, o)
  \/ \E r \in SeqIds : FetchProviderOk(r, SelAnswers(req[r].plat, req[r].user))
  \/ \E r \in SeqIds : FetchProviderFail(r)
  \/ \E r \in SeqIds : FetchUpsert(r)
  \/ \E r \in SeqIds : FetchReturn(r)

SpecSeq == Init /\ [][SeqNext]_vars

-----------------------------------------------------------------------------
(* Selection state *)

SelectedIds(rows, o) == {row.native_id : row \in SelectedRows(rows, o)}

\* C1 (as claimed): for every owner and platform at most one mirrored resource
\* row has is_selected = TRUE, in every reachable state of concurrent selects.
AtMostOneSelected ==
  \A p \in Platforms, o \in Owners : Cardinality(SelectedRows(Table(p), o)) <= 1

\* C2: under sequential calls, a getSelected that follows a successful
\* select(owner, R) returns R; and when a successful select(owner, R2) follows a
\* successful select(owner, R) with R2 # R, exactly one row of the owner is
\* selected and it is R2.
SelectThenGetSelected ==
  /\ (last.kind = "getSelected" /\ last.after # Null) => last.body = last.after
  /\ (Quiet /\ last.kind = "select" /\ last.status = 200
        /\ last.after # Null /\ last.after # last.arg)
       => /\ Cardinality(SelectedRows(Table(last.plat), last.user)) = 1
          /\ SelectedIds(Table(last.plat), last.user) = {last.arg}

\* a second successful select, of another resource, has completed
WitnessSelectAnother ==
  /\ Quiet /\ last.kind = "select" /\ last.status = 200
  /\ last.after \in NativeIds /\ last.after # last.arg

\* C3 (as claimed): a select of a resource that is not a row of the owner
\* answers 404 and leaves is_selected of every row of the owner as it was.
NotOwned(q) == Matched(Table(q.plat), q.user, q.arg) = {}

SelectNotFoundKeepsSelection ==
  [][\A r \in ReqIds :
       /\ (Free(r) /\ req'[r].kind = "select" /\ NotOwned(req'[r]))
            => SelectedIds(TableNext(req'[r].plat), req'[r].user)
                 = SelectedIds(Table(req'[r].plat), req'[r].user)
       /\ (req[r].kind = "select" /\ req'[r] = Idle /\ NotOwned(req[r]))
            => /\ last'.status = 404
               /\ SelectedIds(TableNext(req[r].plat), req[r].user)
                    = SelectedIds(Table(req[r].plat), req[r].user)]_vars

-----------------------------------------------------------------------------
(* The publishing scenario: both owners have fetched and selected resource 42
   on every platform, and the scheduler has queued one post for each owner. *)

PublishResource(o, p) ==
  [user_id |-> o, native_id |-> "42", name |-> "A",
   access_token |-> IF p = "facebook" THEN PageToken(o, "42") ELSE AccountToken(o, p),
   profile_picture_url |-> "u", followers_count |-> 10, is_selected |-> TRUE,
   created_at |-> 0]

ScheduledPost(id, o) ==
  [id |-> id, user_id |-> o, page_id |-> "42", status |-> "pending",
   facebook_post_id |-> None, published_at |-> None]

PostArgs == {0, 1, 2, 3}
ImageUrls == {Undefined, "img"}
TextLens == {0, 5, 281}

PublishInit ==
  /\ routers = Platforms
  /\ social_accounts = AllLinked
  /\ facebook_pages = {PublishResource(o, "facebook") : o \in Owners}
  /\ instagram_accounts = {PublishResource(o, "instagram") : o \in Owners}
  /\ twitter_accounts = {PublishResource(o, "twitter") : o \in Owners}
  /\ instagram_media = {}
  /\ twitter_tweets = {}
  /\ facebook_insights = {}
  /\ scheduled_posts = {ScheduledPost(o, o) : o \in Owners}
  /\ remote_posts = {}
  /\ req = [r \in ReqIds |-> Idle]
  /\ last = NoRequest
  /\ clock = 1

\* publish requests arrive one after the other
PublishNext ==
  \/ \E r \in SeqIds, o \in Owners, id \in PostArgs :
       Quiet /\ FacebookPublishStart(r, o, id)
  \/ \E r \in SeqIds : FacebookPageLookup(r)
  \/ \E r \in SeqIds, o \in Owners, id \in PostArgs, url \in ImageUrls :
       Quiet /\ InstagramPublishStart(r, o, id, url)
  \/ \E r \in SeqIds : InstagramContainerOk(r)
  \/ \E r \in SeqIds, o \in Owners, id \in PostArgs, len \in TextLens :
       Quiet /\ TweetStart(r, o, id, len)
  \/ \E r \in SeqIds : PublishProviderOk(r)
  \/ \E r \in SeqIds : PublishProviderFail(r)
  \/ \E r \in SeqIds : PublishUpdate(r)
  \/ \E r \in SeqIds : PublishUpdateFail(r)

SpecPublish == PublishInit /\ [][PublishNext]_vars

-----------------------------------------------------------------------------
(* Publisher *)

Published(id) == \E sp \in scheduled_posts : sp.id = id /\ sp.status = "published"

PostsOfOthers(rows, o) == {sp \in rows : sp.user_id # o}

\* C4 (as claimed): a publish request on a scheduled post that is already
\* published fails, creates no post at the provider, and leaves the row
\* (facebook_post_id, published_at) as it was.
PublishedIsNotRepublished ==
  [][\A r \in ReqIds :
       (req[r].kind = "publish" /\ Published(req[r].arg))
         => /\ remote_posts' = remote_posts
            /\ scheduled_posts' = scheduled_posts
            /\ req'[r] = Idle => last'.status # 200]_vars

\* C5 (as claimed): for every scheduled post the provider's create-post call
\* succeeds at most once, and a published row has a facebook_post_id.
PublishedExactlyOnce ==
  \A sp \in scheduled_posts :
    /\ Cardinality({rp \in remote_posts : rp.item = sp.id}) <= 1
    /\ sp.status = "published" => sp.facebook_post_id # None

\* C6: scheduled_posts is written by no step of a publish handler but its status
\* update, which comes after the provider has created the post; a provider call
\* that fails (the container creation or the container publish, for instagram)
\* ends the request with a 500 response.  So the post named by a request whose
\* provider call fails is as it was when the request arrived.
ProviderFailureKeepsPost ==
  [][/\ scheduled_posts' # scheduled_posts
          => \E r \in ReqIds : req[r].kind = "publish" /\ req[r].pc = "update"
     /\ \A r \in ReqIds :
          (req[r].kind = "publish" /\ req[r].pc \in ProviderCalls
             /\ req'[r] = Idle /\ remote_posts' = remote_posts)
            => last'.status = 500 /\ scheduled_posts' = scheduled_posts]_vars

\* a publish of a pending post has just failed at the provider: the post is
\* pending, without remote post id and publication time
WitnessProviderFailure ==
  /\ last.kind = "publish" /\ last.status = 500 /\ last.plat = "instagram"
  /\ \E sp \in scheduled_posts :
       /\ sp.id = last.arg /\ sp.user_id = last.user
       /\ sp.status = "pending"
       /\ sp.facebook_post_id = None /\ sp.published_at = None

\* C7 (as claimed): a publish request that names a post id that is no scheduled
\* post of the caller fails (it is not answered 200), and a publish request
\* changes no scheduled post of another owner.
PublishOnlyOwnPosts ==
  [][/\ (last' # last /\ last'.kind = "publish" /\ last'.arg # 0
           /\ OwnScheduledPosts(last'.arg, last'.user) = {})
          => last'.status # 200
     /\ \A r \in ReqIds :
          req[r].kind = "publish"
            => PostsOfOthers(scheduled_posts', req[r].user)
                 = PostsOfOthers(scheduled_posts, req[r].user)]_vars


-----------------------------------------------------------------------------
(* The mirror scenario: the owners fetch their facebook pages, or the content
   of the account they have selected, again and again while the provider's
   answers change between the calls. *)

\* /me/accounts: page 42 with 10 and later 15 followers, page 99 bare
R10(o) == ProviderRecord("42", "A", PageToken(o, "42"), "u", Some(10))
R15(o) == ProviderRecord("42", "B", PageToken(o, "42"), "v", Some(15))
R99(o) == ProviderRecord("99", "C", PageToken(o, "99"), Undefined, None)

PageAnswers(o) ==
  {<<>>, <<R10(o)>>, <<R15(o)>>, <<R99(o)>>, <<R10(o), R99(o)>>, <<R15(o), R10(o)>>}

\* /{instagram_id}/media
M1a == [id |-> "m1", caption |-> "c", media_type |-> "IMAGE", media_url |-> "x",
        timestamp |-> Some(7), like_count |-> Some(1), comments_count |-> None]
M1b == [id |-> "m1", caption |-> "d", media_type |-> "VIDEO", media_url |-> "y",
        timestamp |-> None, like_count |-> Some(2), comments_count |-> Some(1)]
M2 == [id |-> "m2", caption |-> Undefined, media_type |-> "IMAGE",
       media_url |-> Undefined, timestamp |-> Some(8), like_count |-> None,
       comments_count |-> None]

\* /users/{twitter_id}/tweets
T1a == [id |-> "t1", text |-> "c", created_at |-> Some(7), like_count |-> Some(1),
        retweet_count |-> None, reply_count |-> None]
T1b == [id |-> "t1", text |-> "d", created_at |-> None, like_count |-> Some(2),
        retweet_count |-> Some(1), reply_count |-> Some(1)]
T2 == [id |-> "t2", text |-> "e", created_at |-> Some(8), like_count |-> None,
       retweet_count |-> None, reply_count |-> None]

ContentAnswers(p) ==
  IF p = "instagram"
    THEN {<<>>, <<M1a>>, <<M1b>>, <<M2>>, <<M1a, M2>>, <<M1b, M1a>>}
    ELSE {<<>>, <<T1a>>, <<T1b>>, <<T2>>, <<T1a, T2>>, <<T1b, T1a>>}

\* some of the owners have linked facebook and have selected account 42
MirrorInit ==
  /\ routers \in {{p} : p \in Platforms}
  /\ \E linked \in (SUBSET Owners) \ {{}} :
       /\ social_accounts = {a \in AllLinked : a.user_id \in linked}
       /\ instagram_accounts = {PublishResource(o, "instagram") : o \in linked}
       /\ twitter_accounts = {PublishResource(o, "twitter") : o \in linked}
  /\ facebook_pages = {}
  /\ instagram_media = {}
  /\ twitter_tweets = {}
  /\ facebook_insights = {}
  /\ scheduled_posts = {}
  /\ remote_posts = {}
  /\ req = [r \in ReqIds |-> Idle]
  /\ last = NoRequest
  /\ clock = 1

MirrorNext ==
  \/ \E r \in SeqIds, p \in routers \cap {"facebook"}, o \in Owners :
       Quiet /\ FetchStart(r, p, o)
  \/ \E r \in SeqIds : FetchProviderOk(r, PageAnswers(req[r].user))
  \/ \E r \in SeqIds : FetchProviderFail(r)
  \/ \E r \in SeqIds : FetchUpsert(r)
  \/ \E r \in SeqIds : FetchReturn(r)
  \/ \E r \in SeqIds, p \in routers \ {"facebook"}, o \in Owners :
       Quiet /\ ContentStart(r, p, o)
  \/ \E r \in SeqIds : ContentProviderOk(r, ContentAnswers(req[r].plat))
  \/ \E r \in SeqIds : ContentProviderFail(r)
  \/ \E r \in SeqIds : ContentUpsert(r)

SpecMirror == MirrorInit /\ [][MirrorNext]_vars


-----------------------------------------------------------------------------
(* Mirror upserter *)

\* the table a route module mirrors into in this scenario
MirrorTable(p) == IF p = "facebook" THEN facebook_pages ELSE ContentTable(p)

Pages(p, o) == IF p = "facebook" THEN PageAnswers(o) ELSE ContentAnswers(p)

\* the loop body of the three fetch handlers: one upsert per provider record
ApplyRecord(p, rows, o, rec, now) ==
  IF p = "facebook"
    THEN UpsertFacebookPage(rows, o, rec, AccountToken(o, p), now)
    ELSE UpsertContent(p, rows, o, "42", rec, now)

\* for (const x of response.data.data || []) { await pool.query(INSERT ...) }
RECURSIVE ApplyPage(_, _, _, _, _)
ApplyPage(p, rows, o, page, now) ==
  IF page = <<>> THEN rows
  ELSE ApplyPage(p, ApplyRecord(p, rows, o, Head(page), now), o, Tail(page), now)

Ids(page) == {page[i].id : i \in DOMAIN page}

\* every record of the page carries the provider's own time (facebook pages
\* have none to carry)
Stamped(p, page) ==
  \A i \in DOMAIN page :
    CASE p = "instagram" -> page[i].timestamp # None
      [] p = "twitter" -> page[i].created_at # None
      [] OTHER -> TRUE

\* the rows without the column the store fills from its own clock at insert
Data(p, rows) ==
  IF p = "facebook" THEN {[row EXCEPT !.created_at = 0] : row \in rows}
                    ELSE {[row EXCEPT !.fetched_at = 0] : row \in rows}

\* C8: on every reachable mirror table (facebook_pages, instagram_media,
\* twitter_tweets), for an owner and parent: applying a provider page a second
\* time, at once or later, leaves the table exactly as the first application
\* left it; and two pages with disjoint native ids give the same table in
\* either order: row for row under one clock reading, and in every column but
\* the store's own insertion time when the clock moves between the two pages
\* (a record that brings no time of its own takes created_time from that clock).
UpsertIdempotentCommutative ==
  \A p \in routers, o \in Owners :
    \A P \in Pages(p, o) :
      LET T == MirrorTable(p)
          once == ApplyPage(p, T, o, P, clock)
      IN /\ \A later \in {clock, clock + 1} : ApplyPage(p, once, o, P, later) = once
         /\ \A Q \in Pages(p, o) :
              Ids(P) \cap Ids(Q) = {} =>
                /\ ApplyPage(p, once, o, Q, clock)
                     = ApplyPage(p, ApplyPage(p, T, o, Q, clock), o, P, clock)
                /\ (Stamped(p, P) /\ Stamped(p, Q)) =>
                     Data(p, ApplyPage(p, once, o, Q, clock + 1))
                       = Data(p, ApplyPage(p, ApplyPage(p, T, o, Q, clock), o, P,
                                           clock + 1))

\* the handlers have applied two pages with disjoint ids to the table of one
\* parent, so that each of them is now applied again onto its own rows
WitnessPagesApplied ==
  /\ Quiet /\ last.kind \in {"fetch", "content"} /\ last.status = 200
  /\ \E P \in Pages(last.plat, last.user), Q \in Pages(last.plat, last.user) :
       /\ P # <<>> /\ Q # <<>> /\ Ids(P) \cap Ids(Q) = {}
       /\ ApplyPage(last.plat, MirrorTable(last.plat), last.user, P, clock)
            = MirrorTable(last.plat)
       /\ ApplyPage(last.plat, MirrorTable(last.plat), last.user, Q, clock)
            = MirrorTable(last.plat)

\* the rows of one key of facebook_pages
PagesOfKey(rows, o, id) == {row \in rows : row.user_id = o /\ row.native_id = id}

\* C9: an upsert of a resource record whose (user_id, page_id) is absent
\* inserts one row; an upsert onto a present key leaves exactly one row of the
\* key, with page_name and followers_count of the new record and with the
\* page_id and created_at it was inserted with; no other row changes.
UpsertInsertsOrUpdates ==
  [][\A r \in ReqIds :
       (req[r].kind = "fetch" /\ req[r].pc = "upsert" /\ req'[r] # req[r]) =>
         LET o == req[r].user
             rec == Head(req[r].page)
             old == PagesOfKey(Table(req[r].plat), o, rec.id)
             new == PagesOfKey(TableNext(req[r].plat), o, rec.id)
         IN /\ Cardinality(new) = 1
            /\ TableNext(req[r].plat) \ new = Table(req[r].plat) \ old
            /\ \A row \in new :
                 /\ row.name = rec.name
                 /\ row.followers_count = OrZero(rec.followers_count)
                 /\ old = {} => row.created_at = clock
                 /\ \A was \in old : /\ row.created_at = was.created_at
                                     /\ row.native_id = was.native_id
            /\ Cardinality(old) <= 1]_vars

\* page 42 was inserted with 10 followers and has been upserted with 15
WitnessFollowersUpdated ==
  \E row \in facebook_pages :
    /\ row.native_id = "42" /\ row.followers_count = 15
    /\ row.profile_picture_url = "u" /\ row.created_at < clock - 1

\* the row of a content key, and its columns by kind
ContentOfKey(p, rows, parent, id) ==
  IF p = "instagram"
    THEN {row \in rows : row.instagram_id = parent /\ row.media_id = id}
    ELSE {row \in rows : row.twitter_id = parent /\ row.tweet_id = id}

Body(p, row) == IF p = "instagram" THEN row.caption ELSE row.text

Metrics(p, row) ==
  IF p = "instagram" THEN <<row.likes_count, row.comments_count>>
  ELSE <<row.likes_count, row.retweets_count, row.replies_count>>

\* the values the conflict clause writes from a provider record
Written(p, rec) ==
  IF p = "instagram"
    THEN <<OrNull(rec.caption), <<OrZero(rec.like_count), OrZero(rec.comments_count)>> >>
    ELSE <<rec.text, <<OrZero(rec.like_count), OrZero(rec.retweet_count),
                       OrZero(rec.reply_count)>> >>

\* every column that is neither the body nor a metric
Fixed(p, row) ==
  IF p = "instagram"
    THEN <<row.user_id, row.instagram_id, row.media_id, row.media_type,
           row.media_url, row.created_time, row.fetched_at>>
    ELSE <<row.user_id, row.twitter_id, row.tweet_id, row.created_time,
           row.fetched_at>>

\* a step of the content loop that upserts onto a row the table already has
OntoExisting(r) ==
  /\ req[r].kind = "content" /\ req[r].pc = "upsert" /\ req'[r] # req[r]
  /\ ContentOfKey(req[r].plat, ContentTable(req[r].plat), req[r].target,
                  Head(req[r].page).id) # {}

\* C10 (amended): an upsert of a content item onto an existing
\* (parent, native id) row changes the engagement metric columns and the body
\* (caption, text) and nothing else: user_id, the key, media type, media url,
\* created_time and fetched_at keep the values of the first insert, and no
\* other row changes.
UpsertKeepsAllButMetricsAndBody ==
  [][\A r \in ReqIds :
       OntoExisting(r) =>
         LET p == req[r].plat
             rec == Head(req[r].page)
             old == ContentOfKey(p, ContentTable(p), req[r].target, rec.id)
             new == ContentOfKey(p, ContentTableNext(p), req[r].target, rec.id)
         IN /\ Cardinality(old) = 1 /\ Cardinality(new) = 1
            /\ ContentTableNext(p) \ new = ContentTable(p) \ old
            /\ \A was \in old, row \in new :
                 /\ Fixed(p, row) = Fixed(p, was)
                 /\ <<Body(p, row), Metrics(p, row)>> = Written(p, rec)]_vars

\* C10 (as claimed): such an upsert changes the metric columns only; the body
\* (caption, text) too keeps the value of the first insert.
UpsertKeepsAllButMetrics ==
  [][\A r \in ReqIds :
       OntoExisting(r) =>
         LET p == req[r].plat
             rec == Head(req[r].page)
             old == ContentOfKey(p, ContentTable(p), req[r].target, rec.id)
             new == ContentOfKey(p, ContentTableNext(p), req[r].target, rec.id)
         IN \A was \in old, row \in new :
              /\ Fixed(p, row) = Fixed(p, was)
              /\ Body(p, row) = Body(p, was)]_vars

\* media m1 was inserted by owner 2 from M1a and upserted by owner 1 from M1b
WitnessMediaUpserted ==
  \E row \in instagram_media :
    /\ row.media_id = "m1" /\ row.user_id = 2 /\ row.media_url = "x"
    /\ row.caption = "d" /\ row.likes_count = 2 /\ last.user = 1


-----------------------------------------------------------------------------
(* The routes scenario: every provider-calling route of one route module is
   called, one request after another.  Some owners have linked the platform and
   have fetched and selected resource 42; the others have not linked it. *)

\* /{page_id}/insights, flattened: two samples of page_fans on one UTC day
\* and one of page_views on the next
S1 == [name |-> "page_fans", value |-> 5, end_time |-> SecondsPerDay]
S1b == [name |-> "page_fans", value |-> 7, end_time |-> SecondsPerDay + 3600]
S2 == [name |-> "page_views", value |-> 3, end_time |-> 2 * SecondsPerDay]

InsightAnswers == {<<S1>>, <<S1b, S2>>}

\* /me/accounts, /me, /users/me
ResourceAnswers(p, o) ==
  IF p = "facebook" THEN {<<>>, <<R99(o)>>} ELSE {<<R99(o)>>}

\* /{instagram_id}/media, /users/{twitter_id}/tweets
ItemAnswers(p) == IF p = "instagram" THEN {<<M1a, M2>>} ELSE {<<T1a, T2>>}

RoutesInit ==
  /\ routers \in {{p} : p \in Platforms}
  /\ \E linked \in {{1}, Owners} :
       /\ social_accounts =
            {a \in AllLinked : a.platform \notin routers \/ a.user_id \in linked}
       /\ facebook_pages = {PublishResource(o, "facebook") : o \in linked}
       /\ instagram_accounts = {PublishResource(o, "instagram") : o \in linked}
       /\ twitter_accounts = {PublishResource(o, "twitter") : o \in linked}
  /\ instagram_media = {}
  /\ twitter_tweets = {}
  /\ facebook_insights = {}
  /\ scheduled_posts = {ScheduledPost(o, o) : o \in Owners}
  /\ remote_posts = {}
  /\ req = [r \in ReqIds |-> Idle]
  /\ last = NoRequest
  /\ clock = 1

\* the caller's own scheduled post (facebook), no postId (instagram, twitter)
RoutePostArgs(p, o) == IF p = "facebook" THEN {o} ELSE {0}

RoutesNext ==
  \/ \E r \in SeqIds, p \in routers, o \in Owners : Quiet /\ FetchStart(r, p, o)
  \/ \E r \in SeqIds : FetchProviderOk(r, ResourceAnswers(req[r].plat, req[r].user))
  \/ \E r \in SeqIds : FetchProviderFail(r)
  \/ \E r \in SeqIds : FetchUpsert(r)
  \/ \E r \in SeqIds : FetchReturn(r)
  \/ \E r \in SeqIds, p \in routers \ {"facebook"}, o \in Owners :
       Quiet /\ ContentStart(r, p, o)
  \/ \E r \in SeqIds : ContentProviderOk(r, ItemAnswers(req[r].plat))
  \/ \E r \in SeqIds : ContentProviderFail(r)
  \/ \E r \in SeqIds : ContentUpsert(r)
  \/ \E r \in SeqIds, k \in ReadKinds, p \in routers, o \in Owners :
       Quiet /\ ReadStart(r, k, p, o)
  \/ \E r \in SeqIds : ReadProviderOk(r, InsightAnswers)
  \/ \E r \in SeqIds : ReadProviderFail(r)
  \/ \E r \in SeqIds : InsightsInsert(r)
  \/ \E r \in SeqIds, o \in Owners : \E id \in RoutePostArgs("facebook", o) :
       "facebook" \in routers /\ Quiet /\ FacebookPublishStart(r, o, id)
  \/ \E r \in SeqIds : FacebookPageLookup(r)
  \/ \E r \in SeqIds, o \in Owners : \E id \in RoutePostArgs("instagram", o) :
       "instagram" \in routers /\ Quiet /\ InstagramPublishStart(r, o, id, "img")
  \/ \E r \in SeqIds : InstagramContainerOk(r)
  \/ \E r \in SeqIds, o \in Owners : \E id \in RoutePostArgs("twitter", o) :
       "twitter" \in routers /\ Quiet /\ TweetStart(r, o, id, 5)
  \/ \E r \in SeqIds : PublishProviderOk(r)
  \/ \E r \in SeqIds : PublishProviderFail(r)
  \/ \E r \in SeqIds : PublishUpdate(r)

SpecRoutes == RoutesInit /\ [][RoutesNext]_vars


-----------------------------------------------------------------------------
(* Synchronization keeps the mirror *)

\* the unique keys of the rows of the mirror tables
ResourceKeys(rows) == {<<row.user_id, row.native_id>> : row \in rows}

MediaKeys == {<<row.instagram_id, row.media_id>> : row \in instagram_media}

TweetKeys == {<<row.twitter_id, row.tweet_id>> : row \in twitter_tweets}

InsightKeys ==
  {<<row.page_id, row.metric_name, row.insight_date>> : row \in facebook_insights}

MirrorKeys ==
  <<ResourceKeys(facebook_pages), ResourceKeys(instagram_accounts),
    ResourceKeys(twitter_accounts), MediaKeys, TweetKeys, InsightKeys>>

SyncKinds == {"fetch", "content", "insights"}

\* C11: no step of a synchronization (fetch of pages or accounts, of media or
\* tweets, of insights) deletes a mirror row: every key a mirror table holds
\* before the step it holds after it, whatever the provider's page contains.
SyncNeverDeletes ==
  [][(\E r \in ReqIds : req[r].kind \in SyncKinds \/ req'[r].kind \in SyncKinds)
       => \A i \in 1 .. 6 : MirrorKeys[i] \subseteq MirrorKeys'[i]]_vars

\* owner 1 has fetched the pages and the provider's list held page 99 only;
\* page 42, mirrored before, is still there beside it
WitnessKeptWhenAbsentFromPage ==
  /\ last.kind = "fetch" /\ last.plat = "facebook" /\ last.user = 1
  /\ last.status = 200
  /\ {<<1, "42">>, <<1, "99">>} \subseteq ResourceKeys(facebook_pages)

-----------------------------------------------------------------------------
(* Metric samples *)

\* the insert of the next sample of request r meets a stored row of its key
OntoStoredSample(r) ==
  /\ req[r].kind = "insights" /\ req[r].pc = "insert" /\ req'[r] # req[r]
  /\ HasInsight(facebook_insights, req[r].target, Head(req[r].page).name,
                InsightDate(Head(req[r].page).end_time))

\* C12: facebook_insights holds one row for each (page_id, metric_name,
\* insight_date); a stored row never changes again, so its value and user_id are
\* those of the first fetch that wrote the key; an insert that meets a stored
\* row of its key, whatever value it carries, changes nothing and the request
\* goes on to its next sample or to its 200.
InsightsFirstWriteWins ==
  [][/\ facebook_insights \subseteq facebook_insights'
     /\ Cardinality(InsightKeys') = Cardinality(facebook_insights')
     /\ \A r \in ReqIds :
          OntoStoredSample(r) =>
            /\ facebook_insights' = facebook_insights
            /\ IF Tail(req[r].page) = <<>>
                 THEN Free(r)' /\ last'.kind = "insights" /\ last'.status = 200
                 ELSE req'[r].pc = "insert"]_vars

\* owner 2 has stored 5 page_fans of page 42 for the day; owner 1 has then
\* fetched 7 for that day, together with the page_views that are stored as theirs
WitnessSampleDropped ==
  /\ last.kind = "insights" /\ last.user = 1 /\ last.status = 200
  /\ \E row \in facebook_insights :
       /\ row.metric_name = "page_fans" /\ row.user_id = 2
       /\ row.metric_value = 5
  /\ \E row \in facebook_insights :
       row.metric_name = "page_views" /\ row.user_id = 1


-----------------------------------------------------------------------------
(* The race scenario: requests of the owners fetch the resources of one
   platform concurrently while the provider's answer for resource 42 changes
   from one call to the next. *)

RaceAnswers(o) == {<<R10(o)>>, <<R15(o)>>}

RaceNext ==
  \/ \E r \in ReqIds, p \in routers, o \in Owners : FetchStart(r, p, o)
  \/ \E r \in ReqIds : FetchProviderOk(r, RaceAnswers(req[r].user))
  \/ \E r \in ReqIds : FetchProviderFail(r)
  \/ \E r \in ReqIds : FetchUpsert(r)
  \/ \E r \in ReqIds : FetchReturn(r)

SpecRace == Init /\ [][RaceNext]_vars

\* the columns the conflict clause of a resource upsert writes
MutableFields(p, row) ==
  IF p = "facebook"
    THEN <<row.name, row.access_token, row.followers_count>>
    ELSE <<row.name, row.profile_picture_url, row.followers_count,
           row.access_token>>

\* the values a resource upsert of request r writes into them
WrittenFields(r) ==
  LET rec == Head(req[r].page)
  IN IF req[r].plat = "facebook"
       THEN <<rec.name, rec.access_token, OrZero(rec.followers_count)>>
       ELSE <<rec.name, OrNull(rec.picture), OrZero(rec.followers_count),
              req[r].cred>>

\* request r executes the upsert of its next record
UpsertStep(r) ==
  req[r].kind = "fetch" /\ req[r].pc = "upsert" /\ req'[r] # req[r]

\* C13: whatever the interleaving of concurrent fetches, an upsert leaves
\* exactly one row for its key and that row carries the mutable fields of this
\* upsert, the last one applied; between upserts no row changes; no key ever has
\* two rows; and a fetch whose provider call succeeded is answered 200.
UpsertRaceLastWriteWins ==
  [][\A p \in routers :
       /\ Cardinality(ResourceKeys(TableNext(p))) = Cardinality(TableNext(p))
       /\ (\A r \in ReqIds : ~UpsertStep(r)) => TableNext(p) = Table(p)
       /\ \A r \in ReqIds :
            /\ (UpsertStep(r) /\ req[r].plat = p) =>
                 LET new == PagesOfKey(TableNext(p), req[r].user, Head(req[r].page).id)
                 IN /\ Cardinality(new) = 1
                    /\ \A row \in new : MutableFields(p, row) = WrittenFields(r)
            /\ (req[r].kind = "fetch" /\ req[r].pc \in {"upsert", "return"}
                  /\ Free(r)') => last'.status = 200]_vars

\* two fetches of owner 1 are in flight together and both have upserted page
\* 42: one inserted it with 10 followers, the other has written 15 over it
WitnessRacedUpserts ==
  /\ \A r \in ReqIds :
       /\ req[r].kind = "fetch" /\ req[r].user = 1 /\ req[r].pc = "return"
       /\ req[r].plat = "facebook"
  /\ \E row \in facebook_pages :
       /\ row.user_id = 1 /\ row.native_id = "42"
       /\ row.profile_picture_url = "u" /\ row.followers_count = 15


-----------------------------------------------------------------------------
(* Errors *)

\* owner o has no social_accounts row of platform p
NotConnected(o, p) ==
  ~\E a \in social_accounts : a.user_id = o /\ a.platform = p

\* the tables of the store and the provider's posts
store == <<social_accounts, facebook_pages, instagram_accounts, twitter_accounts,
           content, scheduled_posts, remote_posts>>

\* C14: a resource fetch (/pages, /accounts) of an owner without a
\* social_accounts row of the platform never becomes a handler that goes on to
\* the provider call; it is answered 400 in the step that looked the account up,
\* and that step changes no row of the store.
FetchNotConnected ==
  [][/\ \A r \in ReqIds :
          req'[r].kind = "fetch" => ~NotConnected(req'[r].user, req'[r].plat)
     /\ (last' # last /\ last'.kind = "fetch"
           /\ NotConnected(last'.user, last'.plat))
          => /\ last'.status = 400
             /\ UNCHANGED <<store, req>>]_vars

\* owner 2, who has not linked the platform, has asked for its resources
WitnessNotConnected ==
  /\ last.kind = "fetch" /\ last.user = 2 /\ last.status = 400
  /\ NotConnected(2, last.plat) /\ ~NotConnected(1, last.plat)


\* the step in which the provider call of request r fails, in any route
ProviderFailStep(r) ==
  \/ FetchProviderFail(r)
  \/ ContentProviderFail(r)
  \/ ReadProviderFail(r)
  \/ PublishProviderFail(r)

\* C15 (amended): an operation whose provider call fails is answered 500 in
\* every provider-calling route (resource fetch, posts, media, tweets, facebook
\* insights, analytics, publish) but the instagram insights, which answer 200
\* with an empty list.
ProviderFailureAnswers ==
  [][\A r \in ReqIds :
       ProviderFailStep(r) =>
         IF req[r].kind = "insights" /\ req[r].plat = "instagram"
           THEN last'.status = 200 /\ last'.body = "[]"
           ELSE last'.status = 500]_vars

\* C15 (as claimed): an operation whose provider call fails is answered 500,
\* in every provider-calling route of the three platforms.
ProviderFailureAnswers500 ==
  [][\A r \in ReqIds : ProviderFailStep(r) => last'.status = 500]_vars

\* the provider call of an instagram insights request has failed
WitnessInsightsFailure ==
  /\ last.kind = "insights" /\ last.plat = "instagram"
  /\ last.status = 200 /\ last.body = "[]"


\* C16: when the provider has created the post and the status update that
\* follows fails, the caller is answered 500, scheduled_posts is as it was and
\* records the new remote post nowhere, while the remote post exists: a pending
\* item is then left pending, without remote post id, beside its remote post.
LostUpdateLeavesRemotePost ==
  [][\A r \in ReqIds :
       PublishUpdateFail(r) =>
         /\ last'.kind = "publish" /\ last'.status = 500
         /\ scheduled_posts' = scheduled_posts
         /\ \E post \in remote_posts' :
              post.id = req[r].rid /\ post.item = req[r].arg
         /\ \A sp \in scheduled_posts' : sp.facebook_post_id # Some(req[r].rid)]_vars

\* the provider holds a post of item 1, the publish of owner 1 was answered
\* 500, and the item's row is pending without remote post id
WitnessRemotePostUnrecorded ==
  /\ last.kind = "publish" /\ last.plat = "facebook" /\ last.status = 500
  /\ last.user = 1 /\ last.arg = 1
  /\ \E post \in remote_posts : post.item = 1
  /\ \E sp \in scheduled_posts :
       /\ sp.id = 1 /\ sp.status = "pending"
       /\ sp.facebook_post_id = None /\ sp.published_at = None


-----------------------------------------------------------------------------
(* Fetch and selection *)

\* the selection flags of a resource table, by key
SelectionFlags(rows) ==
  {<<row.user_id, row.native_id, row.is_selected>> : row \in rows}

\* C17: no step of a resource fetch (/pages, /accounts) changes is_selected of
\* a row the table has, every row it inserts has is_selected = FALSE, and so the
\* selected resource of every owner is the same after the step as before it.
FetchKeepsSelection ==
  [][(\E r \in ReqIds : req[r].kind = "fetch" \/ req'[r].kind = "fetch") =>
       \A p \in Platforms :
         /\ SelectionFlags(Table(p)) \subseteq SelectionFlags(TableNext(p))
         /\ \A row \in TableNext(p) :
              <<row.user_id, row.native_id>> \notin ResourceKeys(Table(p))
                => row.is_selected = FALSE
         /\ \A o \in Owners :
              SelectedIds(TableNext(p), o) = SelectedIds(Table(p), o)]_vars

\* owner 1 has selected page 42 and has then fetched the pages, 42 among them:
\* page 42 is still the selected one
WitnessSelectedAfterFetch ==
  /\ last.kind = "fetch" /\ last.plat = "facebook" /\ last.user = 1
  /\ last.status = 200 /\ last.after = "42"
  /\ SelectedIds(facebook_pages, 1) = {"42"}


-----------------------------------------------------------------------------
(* The disconnect scenario: the owners fetch the resources of one platform and
   disconnect from it, concurrently. *)

DisconnectAnswers(o) == {<<R10(o)>>}

DisconnectNext ==
  \/ \E r \in ReqIds, p \in routers, o \in Owners : FetchStart(r, p, o)
  \/ \E r \in ReqIds : FetchProviderOk(r, DisconnectAnswers(req[r].user))
  \/ \E r \in ReqIds : FetchProviderFail(r)
  \/ \E r \in ReqIds : FetchUpsert(r)
  \/ \E r \in ReqIds : FetchReturn(r)
  \/ \E r \in ReqIds, p \in routers, o \in Owners : DisconnectStart(r, p, o)
  \/ \E r \in ReqIds : DisconnectContent(r)
  \/ \E r \in ReqIds : DisconnectAccount(r)

SpecDisconnect == Init /\ [][DisconnectNext]_vars

\* C18 (as claimed): when no request is in flight, an owner has mirrored
\* resource rows of a platform only if the owner has a social_accounts row of
\* it; so after a disconnect and the requests that ran beside it, none is left.
MirroredOnlyIfLinked ==
  Quiet =>
    \A p \in Platforms, o \in Owners :
      (\E row \in Table(p) : row.user_id = o) => ~NotConnected(o, p)


-----------------------------------------------------------------------------
(* Publish credentials *)

\* the page tokens stored in the facebook_pages rows of owner o
OwnPageTokens(o) ==
  {row.access_token : row \in {own \in facebook_pages : own.user_id = o}}

\* C19 (as claimed): the credential a facebook publish holds for its provider
\* call is the page_access_token of a facebook_pages row of the requesting owner,
\* also when another owner has mirrored a page with the same page_id.
PublishUsesOwnCredential ==
  \A r \in ReqIds :
    (req[r].kind = "publish" /\ req[r].plat = "facebook" /\ req[r].pc = "provider")
      => req[r].cred \in OwnPageTokens(req[r].user)

=============================================================================
